---- MODULE Spec2Model ----
(***************************************************************************)
(* tvm: a Terraform version manager (src/tvm.py).                          *)
(*                                                                         *)
(* The state is the content of the managed directory TVM_PATH (~/.tvm):    *)
(* regular files terraform_<version>_<os>_<arch>, the symlink "terraform"  *)
(* and the scratch directory "tmp".  Every CLI invocation is one process   *)
(* that runs one command; the commands are install, use, remove unused and *)
(* remove all.  File names are sequences of tokens, so that the two glob   *)
(* patterns of the code ("terraform_*" and "terraform*") are prefix tests. *)
(* A version identifier i stands for the version string "1.i.0".           *)
(*                                                                         *)
(* Environment assumptions: TVM_PATH contains no symlinked component (so   *)
(* os.path.realpath of an entry of TVM_PATH is again a path in TVM_PATH),  *)
(* and os.remove / os.mkdir / os.symlink fail only for the reasons the     *)
(* directory content gives (os.symlink on an existing name).               *)
(* shutil.rmtree may fail: the code catches that.                          *)
(***************************************************************************)
EXTENDS Integers, Sequences, FiniteSets, TLC

VARIABLES user_os, user_arch, dir, pc, versions, pre, last

vars == <<user_os, user_arch, dir, pc, versions, pre, last>>

\* ---------------------------------------------------------------- bounds
NumVersions == 3
MaxBatch == 2

Versions == 1..NumVersions

\* every batch `tvm install v1 v2 ...` of at most MaxBatch versions
Batches == UNION {[1..n -> Versions] : n \in 0..MaxBatch}

\* platform.system() / platform.machine() of the host
Hosts == {<<"Linux", "x86_64">>, <<"Darwin", "arm64">>, <<"Windows", "AMD64">>}

\* what the operator types at an input() prompt
Answers == {"y", "YES", "N", ""}

\* what requests.get gives: a status code (written as a string), or an
\* exception (timeout=30)
Responses == {"200", "403", "500", "timeout"}

\* str.lower() on the strings of the model
lower(s) ==
  CASE s = "YES" -> "yes"
    [] s = "N" -> "n"
    [] s = "Darwin" -> "darwin"
    [] s = "Linux" -> "linux"
    [] s = "Windows" -> "windows"
    [] OTHER -> s

\* ------------------------------------------------------------ file names
Exit1 == <<"sys.exit", 1>>

get_osinfo(os, arch) ==
  IF os \in {"Darwin", "Linux"}
  THEN <<lower(os), IF arch \in {"arm64", "aarch64"} THEN "arm64" ELSE "amd64">>
  ELSE Exit1

\* f"{TVM_PATH}/tmp"
temp_dir == <<"tmp">>

\* f"{TVM_PATH}/terraform"
terraform_dst == <<"terraform">>

\* f"{TVM_PATH}/terraform_{version}_{osinfo}"
FileName(version, osinfo) ==
  <<"terraform", "_", version, "_", osinfo[1], "_", osinfo[2]>>

\* ------------------------------------------------- the file system calls
NoTarget == <<>>
RegularFile == [kind |-> "file", target |-> NoTarget]
Directory == [kind |-> "dir", target |-> NoTarget]
SymLink(t) == [kind |-> "link", target |-> t]

lexists(d, p) == p \in DOMAIN d

islink(d, p) == p \in DOMAIN d /\ d[p].kind = "link"

\* os.path.isfile follows symbolic links
isfile(d, p) ==
  /\ p \in DOMAIN d
  /\ \/ d[p].kind = "file"
     \/ /\ d[p].kind = "link"
        /\ d[p].target \in DOMAIN d
        /\ d[d[p].target].kind = "file"

isdir(d, p) == p \in DOMAIN d /\ d[p].kind = "dir"

realpath(d, p) == IF islink(d, p) THEN d[p].target ELSE p

remove(d, p) == [n \in DOMAIN d \ {p} |-> d[n]]

rmtree(d, p) == [n \in DOMAIN d \ {p} |-> d[n]]

mkdir(d, p) == (p :> Directory) @@ d

\* os.symlink(src, dst); the caller checks that dst is free
symlink(d, src, dst) == (dst :> SymLink(src)) @@ d

\* shutil.move(file_src, file_dst): the extracted binary replaces file_dst
move(d, file_dst) == (file_dst :> RegularFile) @@ d

\* glob.glob(f"{TVM_PATH}/<prefix>*"): the directory entries, broken links
\* included, whose name starts with the prefix
glob(d, prefix) ==
  {n \in DOMAIN d :
     Len(n) >= Len(prefix) /\ SubSeq(n, 1, Len(prefix)) = prefix}

EmptyDir == [n \in {} |-> RegularFile]

\* ---------------------------------------------------- outcome of a command
Result(d, outcome, code, prompted, installer, resp, rmfail) ==
  [dir |-> d, outcome |-> outcome, code |-> code, prompted |-> prompted,
   installer |-> installer, resp |-> resp, rmfail |-> rmfail]

\* later: how many versions of the batch were left unprocessed when the
\* process ended
Event(op, version, r, later) ==
  [op |-> op, version |-> version, outcome |-> r.outcome, code |-> r.code,
   prompted |-> r.prompted, installer |-> r.installer, resp |-> r.resp,
   rmfail |-> r.rmfail, later |-> later]

NoEvent ==
  Event("none", 0, Result(EmptyDir, "ok", 0, FALSE, FALSE, "", FALSE), 0)

\* ------------------------------------------------------ install_terraform
\* line 52: the answers that let an overwrite go on
overwrite_confirmed(answer) == lower(answer) \in {"y", "yes"}

\* lines 56-63: (re)create the scratch directory
scratch(d, rm60) ==
  IF ~isdir(d, temp_dir) THEN mkdir(d, temp_dir)
  ELSE IF rm60 THEN d
  ELSE mkdir(rmtree(d, temp_dir), temp_dir)

\* defect: only the "forbidden" status is treated as fatal
fetch_fatal_only_403(resp) == resp = "403"

\* lines 68-73: the statuses that end the process with exit code 1
fetch_fatal(resp) == resp = "403" \/ resp # "200"

\* lines 89-93: final cleanup
cleanup(d, rm91) == IF rm91 THEN d ELSE rmtree(d, temp_dir)

\* defect: the scratch directory is (re)created before the overwrite prompt
install_iteration_scratch_first(d, osinfo, version, answer, resp, rm60, rm91) ==
  LET file_dst == FileName(version, osinfo)
      prompted == isfile(d, file_dst)
      d1 == scratch(d, rm60)
      f60 == isdir(d, temp_dir) /\ rm60
  IN IF prompted /\ ~overwrite_confirmed(answer)
     THEN Result(d1, "declined", 0, TRUE, TRUE, "", FALSE)
     ELSE IF resp = "timeout"
     THEN Result(d1, "timeout", 1, prompted, TRUE, resp, f60)
     ELSE IF fetch_fatal(resp)
     THEN Result(d1, "fetch_failed", 1, prompted, TRUE, resp, f60)
     ELSE Result(cleanup(move(d1, file_dst), rm91), "ok", 0, prompted, TRUE,
                 resp, f60 \/ rm91)

\* one iteration of the loop of install_terraform (lines 42-93)
install_iteration(d, osinfo, version, answer, resp, rm60, rm91) ==
  LET file_dst == FileName(version, osinfo)
      prompted == isfile(d, file_dst)
      d1 == scratch(d, rm60)
      f60 == isdir(d, temp_dir) /\ rm60
  IN IF prompted /\ ~overwrite_confirmed(answer)
     THEN Result(d, "declined", 0, TRUE, TRUE, "", FALSE)
     ELSE IF resp = "timeout"
     THEN Result(d1, "timeout", 1, prompted, TRUE, resp, f60)
     ELSE IF fetch_fatal(resp)
     THEN Result(d1, "fetch_failed", 1, prompted, TRUE, resp, f60)
     ELSE Result(cleanup(move(d1, file_dst), rm91), "ok", 0, prompted, TRUE,
                 resp, f60 \/ rm91)

\* ---------------------------------------------------------- use_terraform
\* defect: os.path.isdir instead of os.path.isfile
needs_download_isdir(d, terraform_src) == ~isdir(d, terraform_src)

\* line 103
needs_download(d, terraform_src) == ~isfile(d, terraform_src)

\* line 107: the answers that decline the download
download_declined(answer) == lower(answer) \in {"n", "no"}

\* defect: an existing link is kept instead of being replaced
repoint_keep_existing(d, terraform_src) ==
  IF lexists(d, terraform_dst)
  THEN [dir |-> d, outcome |-> "ok", code |-> 0]
  ELSE [dir |-> symlink(d, terraform_src, terraform_dst),
        outcome |-> "ok", code |-> 0]

\* lines 112-117: remove the old link, create the new one
repoint(d, terraform_src) ==
  LET d1 == IF isfile(d, terraform_dst) THEN remove(d, terraform_dst) ELSE d
  IN IF lexists(d1, terraform_dst)
     THEN [dir |-> d1, outcome |-> "FileExistsError", code |-> 1]
     ELSE [dir |-> symlink(d1, terraform_src, terraform_dst),
           outcome |-> "ok", code |-> 0]

use_terraform(d, os, arch, version, answer, resp, rm60, rm91) ==
  LET osinfo == get_osinfo(os, arch)
      terraform_src == FileName(version, osinfo)
      missing == needs_download(d, terraform_src)
      inst == IF missing
              THEN install_iteration(d, osinfo, version, answer, resp,
                                     rm60, rm91)
              ELSE Result(d, "ok", 0, FALSE, FALSE, "", FALSE)
      rp == repoint(inst.dir, terraform_src)
  IN IF osinfo = Exit1
     THEN Result(d, "unsupported", 1, FALSE, FALSE, "", FALSE)
     ELSE IF missing /\ download_declined(answer)
     THEN Result(d, "declined", 0, TRUE, FALSE, "", FALSE)
     ELSE IF inst.outcome # "ok"
     THEN [inst EXCEPT !.prompted = @ \/ missing]
     ELSE Result(rp.dir, rp.outcome, rp.code, inst.prompted \/ missing,
                 inst.installer, inst.resp, inst.rmfail)

\* ---------------------------------------------------------- remove_unused
\* line 133: whether symlinked_file gets bound
link_resolves(d) == isfile(d, terraform_dst) /\ islink(d, terraform_dst)

\* defect: the items are compared with the link's own path, not its target
remove_unused_no_realpath(d) ==
  LET filelist == glob(d, <<"terraform", "_">>)
  IN IF ~link_resolves(d)
     THEN IF filelist = {}
          THEN Result(d, "ok", 0, FALSE, FALSE, "", FALSE)
          ELSE Result(d, "NameError", 1, FALSE, FALSE, "", FALSE)
     ELSE LET symlinked_file == terraform_dst
              doomed == {item \in filelist : item # symlinked_file}
          IN Result([n \in DOMAIN d \ doomed |-> d[n]], "ok", 0, FALSE,
                    FALSE, "", FALSE)

\* defect: the pattern of remove_all ("terraform*") is used
remove_unused_glob_all(d) ==
  LET filelist == glob(d, <<"terraform">>)
  IN IF ~link_resolves(d)
     THEN IF filelist = {}
          THEN Result(d, "ok", 0, FALSE, FALSE, "", FALSE)
          ELSE Result(d, "NameError", 1, FALSE, FALSE, "", FALSE)
     ELSE LET symlinked_file == realpath(d, terraform_dst)
              doomed == {item \in filelist : item # symlinked_file}
          IN Result([n \in DOMAIN d \ doomed |-> d[n]], "ok", 0, FALSE,
                    FALSE, "", FALSE)

\* defect: symlinked_file starts as None, so nothing is spared when the
\* link does not resolve
remove_unused_default_none(d) ==
  LET filelist == glob(d, <<"terraform", "_">>)
      symlinked_file == IF link_resolves(d) THEN realpath(d, terraform_dst)
                        ELSE <<"None">>
      doomed == {item \in filelist : item # symlinked_file}
  IN Result([n \in DOMAIN d \ doomed |-> d[n]], "ok", 0, FALSE, FALSE, "",
            FALSE)

remove_unused(d) ==
  LET filelist == glob(d, <<"terraform", "_">>)
  IN IF ~link_resolves(d)
     THEN IF filelist = {}
          THEN Result(d, "ok", 0, FALSE, FALSE, "", FALSE)
          ELSE Result(d, "NameError", 1, FALSE, FALSE, "", FALSE)
     ELSE LET symlinked_file == realpath(d, terraform_dst)
              doomed == {item \in filelist : item # symlinked_file}
          IN Result([n \in DOMAIN d \ doomed |-> d[n]], "ok", 0, FALSE,
                    FALSE, "", FALSE)

\* ------------------------------------------------------------- remove_all
\* defect: the pattern of remove_unused ("terraform_*") is used
remove_all_underscore(d) ==
  LET filelist == glob(d, <<"terraform", "_">>)
  IN Result([n \in DOMAIN d \ filelist |-> d[n]], "ok", 0, FALSE, FALSE,
            "", FALSE)

remove_all(d) ==
  LET filelist == glob(d, <<"terraform">>)
  IN Result([n \in DOMAIN d \ filelist |-> d[n]], "ok", 0, FALSE, FALSE,
            "", FALSE)

\* ------------------------------------------------------------ the machine
\* input() is read only when a prompt is shown, requests.get is called only
\* when the installer runs, and shutil.rmtree at line 60 runs only when the
\* scratch directory exists
AnswersIf(prompted) == IF prompted THEN Answers ELSE {""}

ResponsesIf(fetching) == IF fetching THEN Responses ELSE {""}

Rm60If(d) == IF isdir(d, temp_dir) THEN BOOLEAN ELSE {FALSE}

Rm91If(resp) == IF resp = "200" THEN BOOLEAN ELSE {FALSE}

UsePrompts(d, os, arch, version) ==
  /\ get_osinfo(os, arch) # Exit1
  /\ needs_download(d, FileName(version, get_osinfo(os, arch)))

Init ==
  /\ \E host \in Hosts : user_os = host[1] /\ user_arch = host[2]
  /\ dir = EmptyDir
  /\ pc = "idle"
  /\ versions = <<>>
  /\ pre = EmptyDir
  /\ last = NoEvent

\* `tvm install v...`: get_osinfo, then the loop
InstallCall ==
  /\ pc = "idle"
  /\ \E batch \in Batches :
       LET osinfo == get_osinfo(user_os, user_arch)
       IN IF osinfo = Exit1
          THEN /\ pc' = "idle"
               /\ versions' = <<>>
               /\ last' = Event("install", 0,
                    Result(dir, "unsupported", 1, FALSE, FALSE, "", FALSE), 0)
          ELSE /\ pc' = "install"
               /\ versions' = batch
               /\ last' = Event("install", 0,
                    Result(dir, "called", 0, FALSE, FALSE, "", FALSE), 0)
  /\ pre' = dir
  /\ UNCHANGED <<user_os, user_arch, dir>>

InstallLoop ==
  /\ pc = "install"
  /\ versions # <<>>
  /\ \E answer \in AnswersIf(isfile(dir,
                 FileName(Head(versions), get_osinfo(user_os, user_arch)))),
        resp \in Responses, rm60 \in Rm60If(dir) :
     \E rm91 \in Rm91If(resp) :
       LET r == install_iteration(dir, get_osinfo(user_os, user_arch),
                                  Head(versions), answer, resp, rm60, rm91)
       IN /\ dir' = r.dir
          /\ IF r.outcome = "ok"
             THEN /\ pc' = "install"
                  /\ versions' = Tail(versions)
                  /\ last' = Event("install", Head(versions), r, 0)
             ELSE /\ pc' = "idle"
                  /\ versions' = <<>>
                  /\ last' = Event("install", Head(versions), r,
                                   Len(Tail(versions)))
  /\ pre' = dir
  /\ UNCHANGED <<user_os, user_arch>>

InstallReturn ==
  /\ pc = "install"
  /\ versions = <<>>
  /\ pc' = "idle"
  /\ UNCHANGED <<user_os, user_arch, dir, versions, pre, last>>

Use ==
  /\ pc = "idle"
  /\ \E version \in Versions :
     \E answer \in AnswersIf(UsePrompts(dir, user_os, user_arch, version)) :
     \E resp \in ResponsesIf(UsePrompts(dir, user_os, user_arch, version)
                              /\ ~download_declined(answer)) :
     \E rm60 \in Rm60If(dir), rm91 \in Rm91If(resp) :
       LET r == use_terraform(dir, user_os, user_arch, version, answer, resp,
                              rm60, rm91)
       IN /\ dir' = r.dir
          /\ last' = Event("use", version, r, 0)
  /\ pre' = dir
  /\ versions' = <<>>
  /\ UNCHANGED <<user_os, user_arch, pc>>

RemoveUnused ==
  /\ pc = "idle"
  /\ dir' = remove_unused(dir).dir
  /\ last' = Event("remove_unused", 0, remove_unused(dir), 0)
  /\ pre' = dir
  /\ versions' = <<>>
  /\ UNCHANGED <<user_os, user_arch, pc>>

RemoveAll ==
  /\ pc = "idle"
  /\ dir' = remove_all(dir).dir
  /\ last' = Event("remove_all", 0, remove_all(dir), 0)
  /\ pre' = dir
  /\ versions' = <<>>
  /\ UNCHANGED <<user_os, user_arch, pc>>

Next ==
  \/ InstallCall
  \/ InstallLoop
  \/ InstallReturn
  \/ Use
  \/ RemoveUnused
  \/ RemoveAll

Spec == Init /\ [][Next]_vars

\* A managed directory that exists at start-up is taken as it is (line 180):
\* any set of version files, the link absent or naming any version file
\* (present or not), the scratch directory present or not.
PreExisting(osinfo, installed, target, scratchdir) ==
  LET names == {FileName(v, osinfo) : v \in installed}
               \cup (IF target = 0 THEN {} ELSE {terraform_dst})
               \cup (IF scratchdir THEN {temp_dir} ELSE {})
  IN [n \in names |->
        IF n = terraform_dst THEN SymLink(FileName(target, osinfo))
        ELSE IF n = temp_dir THEN Directory
        ELSE RegularFile]

InitAnyDir ==
  /\ \E host \in Hosts : user_os = host[1] /\ user_arch = host[2]
  /\ \E installed \in SUBSET Versions, target \in Versions \cup {0},
        scratchdir \in BOOLEAN :
       dir = PreExisting(IF get_osinfo(user_os, user_arch) = Exit1
                         THEN <<"linux", "amd64">>
                         ELSE get_osinfo(user_os, user_arch),
                         installed, target, scratchdir)
  /\ pc = "idle"
  /\ versions = <<>>
  /\ pre = EmptyDir
  /\ last = NoEvent

SpecAnyDir == InitAnyDir /\ [][Next]_vars

\* ----------------------------------------------------------------- claims
osinfo_now == get_osinfo(user_os, user_arch)

\* the InstalledVersion files of a directory
InstalledVersionFiles(d) ==
  {n \in DOMAIN d : d[n].kind = "file" /\ n[1] = "terraform" /\ Len(n) > 1}

\* the symlinks of a directory
ActiveLinks(d) == {n \in DOMAIN d : d[n].kind = "link"}

\* C1: whenever use(v) runs to completion, the link "terraform" exists and
\* resolves to the installed file terraform_<v>_<PlatformTag>.
C1_UseActivates ==
  (last.op = "use" /\ last.outcome = "ok") =>
    /\ pc = "idle"
    /\ last.code = 0
    /\ islink(dir, terraform_dst)
    /\ realpath(dir, terraform_dst) = FileName(last.version, osinfo_now)
    /\ realpath(dir, terraform_dst) \in InstalledVersionFiles(dir)

\* use delegated to install while another version was active
C1_Witness ==
  /\ last.op = "use" /\ last.outcome = "ok" /\ last.installer
  /\ islink(pre, terraform_dst)
  /\ realpath(pre, terraform_dst) # realpath(dir, terraform_dst)

\* C2: in every reachable state there is at most one link, it is the entry
\* "terraform", and when present it names an installed file that exists.
C2_LinkNeverDangling ==
  /\ Cardinality(ActiveLinks(dir)) <= 1
  /\ ActiveLinks(dir) \subseteq {terraform_dst}
  /\ lexists(dir, terraform_dst) =>
       /\ islink(dir, terraform_dst)
       /\ dir[terraform_dst].target \in InstalledVersionFiles(dir)

\* remove unused has deleted files and the link is still there
C2_Witness ==
  /\ last.op = "remove_unused" /\ last.outcome = "ok"
  /\ islink(dir, terraform_dst)
  /\ InstalledVersionFiles(pre) # InstalledVersionFiles(dir)

\* C3: when the link resolves, remove_unused deletes every terraform_* file
\* but the one the link resolves to, and leaves that file and the link.
C3_RemoveUnusedSparesActive ==
  (last.op = "remove_unused" /\ link_resolves(pre)) =>
    /\ last.outcome = "ok"
    /\ \A n \in InstalledVersionFiles(pre) :
         lexists(dir, n) <=> n = realpath(pre, terraform_dst)
    /\ InstalledVersionFiles(dir) = {realpath(pre, terraform_dst)}
    /\ lexists(dir, terraform_dst)
    /\ dir[terraform_dst] = pre[terraform_dst]
    /\ lexists(dir, temp_dir) <=> lexists(pre, temp_dir)

\* remove unused ran with two or more versions installed and one active
C3_Witness ==
  /\ last.op = "remove_unused" /\ link_resolves(pre)
  /\ Cardinality(InstalledVersionFiles(pre)) >= 2

\* C4: after remove_all no entry whose name starts with "terraform" is left:
\* no installed version, no link; the operator is not asked.
C4_RemoveAllEmpties ==
  (last.op = "remove_all") =>
    /\ last.outcome = "ok" /\ ~last.prompted
    /\ \A n \in DOMAIN dir : n[1] # "terraform"
    /\ InstalledVersionFiles(dir) = {}
    /\ ActiveLinks(dir) = {}

\* remove all ran with a link and two or more versions installed
C4_Witness ==
  /\ last.op = "remove_all"
  /\ islink(pre, terraform_dst)
  /\ Cardinality(InstalledVersionFiles(pre)) >= 2

\* C5: use(v) on the version that is already active leaves the directory as
\* it was, asks nothing and does not run the installer.
C5_UseActiveIdempotent ==
  (/\ last.op = "use"
   /\ link_resolves(pre)
   /\ realpath(pre, terraform_dst) = FileName(last.version, osinfo_now)) =>
    /\ last.outcome = "ok"
    /\ dir = pre
    /\ ~last.prompted
    /\ ~last.installer
    /\ last.resp = ""

\* use ran on the active version, with another version installed too
C5_Witness ==
  /\ last.op = "use"
  /\ link_resolves(pre)
  /\ realpath(pre, terraform_dst) = FileName(last.version, osinfo_now)
  /\ Cardinality(InstalledVersionFiles(pre)) >= 2

\* C6: a fetch that answers 403 or any other non-200 status ends the process
\* with exit code 1, no later version is processed, and the installed files
\* and the link are as they were when the iteration began.
C6_FetchFailureIsFatal ==
  (last.op \in {"install", "use"} /\ last.resp \notin {"", "200", "timeout"}) =>
    /\ last.outcome = "fetch_failed"
    /\ last.code = 1
    /\ pc = "idle"
    /\ InstalledVersionFiles(dir) = InstalledVersionFiles(pre)
    /\ ActiveLinks(dir) = ActiveLinks(pre)
    /\ \A n \in ActiveLinks(pre) : dir[n] = pre[n]

\* the fetch failed for a version whose overwrite had been accepted, with a
\* later version of the batch still to come
C6_Witness ==
  /\ last.op = "install" /\ last.outcome = "fetch_failed"
  /\ last.prompted
  /\ last.later >= 1
  /\ FileName(last.version, osinfo_now) \in InstalledVersionFiles(dir)

\* C7: when an install (or a use that delegated to install) has terminated
\* by success, decline or fetch failure, and no scratch removal failed, the
\* directory holds no tmp/.
C7_ScratchDoesNotPersist ==
  (/\ pc = "idle"
   /\ last.op \in {"install", "use"}
   /\ last.installer
   /\ last.outcome \in {"ok", "declined", "fetch_failed"}
   /\ ~last.rmfail) =>
    ~lexists(dir, temp_dir)

\* C8: an operator decline exits with code 0, ends the batch and leaves the
\* whole directory, scratch directory included, as it was at the prompt; a
\* declined use does not run the installer.
C8_DeclineChangesNothing ==
  (last.outcome = "declined") =>
    /\ last.code = 0
    /\ pc = "idle"
    /\ last.prompted
    /\ last.resp = ""
    /\ dir = pre
    /\ (last.op = "use" => ~last.installer)

\* an overwrite was declined with a later version still to come and a stale
\* scratch directory in place
C8_Witness ==
  /\ last.op = "install" /\ last.outcome = "declined"
  /\ last.later >= 1
  /\ lexists(dir, temp_dir)

\* C9: whenever use(v) reaches the repoint step with a symlink "terraform"
\* in place, broken or not, the old link is removed, the new one is created
\* without error and it names v's file.
C9_RepointUnconditional ==
  (/\ last.op = "use"
   /\ last.outcome \in {"ok", "FileExistsError"}
   /\ islink(pre, terraform_dst)) =>
    /\ last.outcome = "ok"
    /\ islink(dir, terraform_dst)
    /\ realpath(dir, terraform_dst) = FileName(last.version, osinfo_now)

\* C10: when the link does not resolve (absent or broken), remove_unused
\* deletes nothing: it faults before any removal when a terraform_* file is
\* present and returns normally when none is.
C10_RemoveUnusedUnresolved ==
  (last.op = "remove_unused" /\ ~link_resolves(pre)) =>
    /\ dir = pre
    /\ glob(pre, <<"terraform", "_">>) # {} =>
         last.outcome = "NameError" /\ last.code = 1
    /\ glob(pre, <<"terraform", "_">>) = {} => last.outcome = "ok"

\* remove unused ran with a broken link and installed versions present
C10_Witness ==
  /\ last.op = "remove_unused"
  /\ islink(pre, terraform_dst) /\ ~isfile(pre, terraform_dst)
  /\ Cardinality(InstalledVersionFiles(pre)) >= 2

====
